---- MODULE Spec2Model ----
(***************************************************************************)
(* A model of great_expectations/data_context/util.py:                     *)
(*   substitute_config_variable, substitute_all_config_variables,          *)
(*   instantiate_class_from_config (with load_class),                      *)
(*   build_slack_notification_request and the callback of                  *)
(*   get_slack_callback.                                                   *)
(*                                                                         *)
(* Python strings are sequences of one-character strings, so that the      *)
(* regular expressions of substitute_config_variable are computed          *)
(* character by character.  A Python value is a record [t, s, n]: t is the *)
(* type tag, s the characters of a str (or of the single str element of a  *)
(* list), n the number of an int or bool.                                  *)
(***************************************************************************)
EXTENDS Integers, Sequences, FiniteSets, TLC

VARIABLES
    environ,                \* os.environ: variable name -> value (a str)
    config_variables_dict,  \* the lookup table: name -> Python value
    template_str,           \* argument of substitute_config_variable
    sub_result,             \* what substitute_config_variable returned
    sub_pc,                 \* "call" before the call, "done" after it
    data,                   \* argument of substitute_all_config_variables
    data_before,            \* data as it was when the call began
    all_result,             \* what substitute_all_config_variables returned
    all_pc,                 \* "call" before the call, "done" after it
    config,                 \* the caller's config record
    config_defaults,        \* the caller's config_defaults record
    runtime_config,         \* the caller's runtime_config record
    defaults_given,         \* FALSE: the caller passes config_defaults=None
    config_before,          \* the three records as they were when the
    defaults_before,        \*   latest call of instantiate_class_from_config
    runtime_before,         \*   began
    outcomes,               \* how each call so far ended, oldest first
    ctor_called,            \* the latest call reached class_(**kwargs)
    ctor_kwargs,            \* the keyword arguments it passed
    validation_json,        \* argument of the request builder / the callback
    query,                  \* blocks of the payload built, in order
    slack_pc,               \* "call", then "built" or "sent"
    slack_outcome,          \* "returned", or the exception that left the call
    posts,                  \* POSTs made to the webhook by the invocation
    log                     \* levels of the records logged, oldest first

subVars == <<environ, config_variables_dict, template_str, sub_result, sub_pc>>
allVars == <<data, data_before, all_result, all_pc>>

instVars == <<config, config_defaults, runtime_config, defaults_given,
              config_before, defaults_before, runtime_before,
              outcomes, ctor_called, ctor_kwargs>>

slackVars == <<validation_json, query, slack_pc, slack_outcome, posts, log>>

vars == <<subVars, allVars, instVars, slackVars>>

-----------------------------------------------------------------------------
(* Bounds of the model *)

\* Longest string passed to substitute_config_variable.
MaxLen == 5
\* Deepest nesting of the mappings passed to substitute_all_config_variables.
MaxDepth == 2
\* Calls of instantiate_class_from_config made with the same records.
MaxCalls == 2

-----------------------------------------------------------------------------
(* Python values *)

PyStr(s)  == [t |-> "str",  s |-> s,    n |-> 0]
PyInt(n)  == [t |-> "int",  s |-> <<>>, n |-> n]
PyBool(b) == [t |-> "bool", s |-> <<>>, n |-> IF b THEN 1 ELSE 0]
PyNone    == [t |-> "none", s |-> <<>>, n |-> 0]
PyList1(s) == [t |-> "list", s |-> s,   n |-> 1]

\* Python truth value, as tested by `if not config_variable_value`.
Truthy(v) ==
    CASE v.t = "str"  -> v.s # <<>>
      [] v.t = "int"  -> v.n # 0
      [] v.t = "bool" -> v.n = 1
      [] v.t = "none" -> FALSE
      [] v.t = "list" -> v.n > 0

\* The characters the inputs are drawn from.
Alphabet == {"$", "{", "}", "a", "A", "0", "\n"}

RECURSIVE StringsUpTo(_)
StringsUpTo(k) ==
    IF k = 0 THEN {<<>>}
    ELSE LET shorter == StringsUpTo(k - 1)
         IN  shorter \cup {Append(s, c) : s \in {x \in shorter : Len(x) = k - 1}, c \in Alphabet}

-----------------------------------------------------------------------------
(* The regular expressions of substitute_config_variable *)

LowerCase == {"a", "b", "c", "d", "e", "f", "g", "h", "i", "j", "k", "l", "m",
              "n", "o", "p", "q", "r", "s", "t", "u", "v", "w", "x", "y", "z"}
Digits == {"0", "1", "2", "3", "4", "5", "6", "7", "8", "9"}

\* [_a-z]
NameStart(c) == c = "_" \/ c \in LowerCase
\* [_a-z0-9]
NameChar(c) == NameStart(c) \/ c \in Digits

\* `$` without re.MULTILINE: at the end of the string, or just before a
\* line break that ends the string.  AtEnd(s, i): `$` matches with i
\* characters consumed.
AtEnd(s, i) == i = Len(s) \/ (i = Len(s) - 1 /\ s[Len(s)] = "\n")

NoMatch == [matched |-> FALSE, group1 |-> <<>>]

\* re.search(r'^\$\{(.*?)\}$', s): group 1 is the shortest run of
\* characters other than a line break after "${" that is followed by "}"
\* and `$`.
SearchBrace(s) ==
    IF Len(s) < 3 \/ s[1] # "$" \/ s[2] # "{" THEN NoMatch
    ELSE LET ends == {k \in 2..(Len(s) - 1) :
                        /\ \A i \in 3..k : s[i] # "\n"
                        /\ s[k + 1] = "}"
                        /\ AtEnd(s, k + 1)}
         IN  IF ends = {} THEN NoMatch
             ELSE LET k == CHOOSE x \in ends : \A y \in ends : x <= y
                  IN  [matched |-> TRUE, group1 |-> SubSeq(s, 3, k)]

\* re.search(r'^\$([_a-z][_a-z0-9]*)$', s): group 1 is the longest run of
\* name characters after "$" that is followed by `$`.
SearchBare(s) ==
    IF Len(s) < 2 \/ s[1] # "$" \/ ~NameStart(s[2]) THEN NoMatch
    ELSE LET ends == {k \in 2..Len(s) :
                        /\ \A i \in 3..k : NameChar(s[i])
                        /\ AtEnd(s, k)}
         IN  IF ends = {} THEN NoMatch
             ELSE LET k == CHOOSE x \in ends : \A y \in ends : x >= y
                  IN  [matched |-> TRUE, group1 |-> SubSeq(s, 2, k)]

\* match = re.search(brace, s) or re.search(bare, s)
SearchReference(s) ==
    IF SearchBrace(s).matched THEN SearchBrace(s) ELSE SearchBare(s)

\* os.getenv(name): the value, or None when the variable is not set.
getenv(env, name) ==
    IF name \in DOMAIN env THEN PyStr(env[name]) ELSE PyNone

\* config_variables_dict.get(name): the entry, or None when absent.
dict_get(d, name) ==
    IF name \in DOMAIN d THEN d[name] ELSE PyNone

\* substitute_config_variable consulting the table before the environment.
substitute_config_variable_table_first(template, d, env) ==
    IF template.t # "str" THEN template
    ELSE LET match == SearchReference(template.s)
         IN  IF match.matched
             THEN LET fromDict == dict_get(d, match.group1)
                  IN  IF Truthy(fromDict) THEN fromDict
                      ELSE LET fromEnv == getenv(env, match.group1)
                           IN  IF Truthy(fromEnv) THEN fromEnv ELSE template
             ELSE template

\* substitute_config_variable(template_str, config_variables_dict), reading
\* the environment env.
substitute_config_variable(template, d, env) ==
    IF template.t = "none" THEN template
    ELSE IF template.t # "str" THEN template      \* re.search raises TypeError
    ELSE LET match == SearchReference(template.s)
         IN  IF match.matched
             THEN LET fromEnv == getenv(env, match.group1)
                  IN  IF Truthy(fromEnv) THEN fromEnv
                      ELSE LET fromDict == dict_get(d, match.group1)
                           IN  IF Truthy(fromDict) THEN fromDict ELSE template
             ELSE template

-----------------------------------------------------------------------------
(* Inputs of the substitution *)

VarNames == {<<"a">>, <<"A">>}
EnvValues == {<<>>, <<"v">>}
TableValues == {PyStr(<<>>), PyInt(0), PyBool(FALSE), PyStr(<<"w">>), PyInt(7)}

\* Functions from at most one name of VarNames to a value of vals.
Maps1(vals) ==
    {[k \in {} |-> CHOOSE v \in vals : TRUE]}
        \cup {[k \in {name} |-> v] : name \in VarNames, v \in vals}

NonStrings == {PyNone, PyBool(TRUE), PyBool(FALSE), PyInt(0), PyInt(42),
               PyList1(<<"$", "{", "a", "}">>)}

Templates == {PyStr(s) : s \in StringsUpTo(MaxLen)} \cup NonStrings

IdleSub ==
    /\ environ = [k \in {} |-> <<>>]
    /\ config_variables_dict = [k \in {} |-> PyNone]
    /\ template_str = PyNone
    /\ sub_result = PyNone
    /\ sub_pc = "idle"

IdleAll ==
    /\ data = PyNone
    /\ data_before = PyNone
    /\ all_result = PyNone
    /\ all_pc = "idle"

EmptyRecord == [k \in {} |-> ""]

IdleInst ==
    /\ config = EmptyRecord /\ config_defaults = EmptyRecord
    /\ runtime_config = EmptyRecord /\ defaults_given = FALSE
    /\ config_before = EmptyRecord /\ defaults_before = EmptyRecord
    /\ runtime_before = EmptyRecord
    /\ outcomes = <<>> /\ ctor_called = FALSE /\ ctor_kwargs = EmptyRecord

NoValidationJson ==
    [given |-> FALSE, keys |-> {}, success |-> FALSE, meta |-> {}]

IdleSlack ==
    /\ validation_json = NoValidationJson
    /\ query = <<>> /\ slack_pc = "idle" /\ slack_outcome = "none"
    /\ posts = 0 /\ log = <<>>

InitSubst ==
    /\ IdleAll /\ IdleInst /\ IdleSlack
    /\ environ \in Maps1(EnvValues)
    /\ config_variables_dict \in Maps1(TableValues)
    /\ template_str \in Templates
    /\ sub_result = PyNone
    /\ sub_pc = "call"

\* One call of substitute_config_variable.
Substitute ==
    /\ sub_pc = "call"
    /\ sub_result' = substitute_config_variable(template_str, config_variables_dict, environ)
    /\ sub_pc' = "done"
    /\ UNCHANGED <<environ, config_variables_dict, template_str>>
    /\ UNCHANGED <<allVars, instVars, slackVars>>

NextSubst == Substitute

SpecSubst == InitSubst /\ [][NextSubst]_vars

-----------------------------------------------------------------------------
(* Claims about substitute_config_variable *)

UpperCase == {"A", "B", "C", "D", "E", "F", "G", "H", "I", "J", "K", "L", "M",
              "N", "O", "P", "Q", "R", "S", "T", "U", "V", "W", "X", "Y", "Z"}

\* name matches [_a-zA-Z][_a-zA-Z0-9]*
IsIdentifier(name) ==
    /\ Len(name) >= 1
    /\ name[1] = "_" \/ name[1] \in LowerCase \cup UpperCase
    /\ \A i \in 2..Len(name) :
          name[i] = "_" \/ name[i] \in LowerCase \cup UpperCase \cup Digits

\* The characters of "${N}" and of "$N".
BraceToken(name) == <<"$", "{">> \o name \o <<"}">>
BareToken(name) == <<"$">> \o name

\* The inner name of a string read as "${N}" or as "$N".
BraceName(s) == SubSeq(s, 3, Len(s) - 1)
BareName(s) == SubSeq(s, 2, Len(s))

\* s is exactly "${N}" for some N; s is exactly "$NAME", NAME an identifier.
IsBraceToken(s) == Len(s) >= 3 /\ s = BraceToken(BraceName(s))
IsBareToken(s) == Len(s) >= 2 /\ s = BareToken(BareName(s)) /\ IsIdentifier(BareName(s))

\* C1: substitute_config_variable applied to a bare token "$NAME", for
\* every NAME matching [_a-zA-Z][_a-zA-Z0-9]* (upper case included) whose
\* environment variable is set to a non-empty value, returns that value.
C1_BareUpperCaseResolved ==
    (/\ sub_pc = "done"
     /\ template_str.t = "str"
     /\ IsBareToken(template_str.s)
     /\ BareName(template_str.s) \in DOMAIN environ
     /\ environ[BareName(template_str.s)] # <<>>)
    => sub_result = PyStr(environ[BareName(template_str.s)])

\* What C5 says a reference with inner name `name` resolves to: the
\* environment variable if set and non-empty, else the table entry if
\* present and truthy, else the token itself.
ResolvedValue(name, token) ==
    IF name \in DOMAIN environ /\ environ[name] # <<>>
    THEN PyStr(environ[name])
    ELSE IF name \in DOMAIN config_variables_dict
            /\ Truthy(config_variables_dict[name])
         THEN config_variables_dict[name]
         ELSE token

NoLineBreak(s) == \A i \in 1..Len(s) : s[i] # "\n"

C6_NonReferenceUnchanged ==
    (/\ sub_pc = "done"
     /\ \/ template_str.t # "str"
        \/ ~IsBraceToken(template_str.s) /\ ~IsBareToken(template_str.s))
    => sub_result = template_str

-----------------------------------------------------------------------------
(* substitute_all_config_variables *)

\* A mapping is [t |-> "dict", d |-> f], f a function from its keys to
\* values (mappings or leaves).
PyDict(f) == [t |-> "dict", d |-> f]

\* substitute_all_config_variables without the recursion into nested
\* mappings.
substitute_all_config_variables_shallow(v, d, env) ==
    IF v.t = "dict"
    THEN PyDict([k \in DOMAIN v.d |-> substitute_config_variable(v.d[k], d, env)])
    ELSE substitute_config_variable(v, d, env)

\* substitute_all_config_variables(data, replace_variables_dict), reading
\* the environment env.
RECURSIVE substitute_all_config_variables(_, _, _)
substitute_all_config_variables(v, d, env) ==
    IF v.t = "dict"
    THEN PyDict([k \in DOMAIN v.d |-> substitute_all_config_variables(v.d[k], d, env)])
    ELSE substitute_config_variable(v, d, env)

Keys == {"k1", "k2"}

Leaves == {PyStr(<<"$", "{", "a", "}">>), PyInt(42), PyList1(<<"$", "{", "a", "}">>)}

\* Functions from a subset of Keys to vals.
PartialMaps(vals) == UNION {[ks -> vals] : ks \in SUBSET Keys}

\* The values nested at most depth mappings deep.
RECURSIVE NestedValues(_)
NestedValues(depth) ==
    IF depth = 0 THEN Leaves
    ELSE Leaves \cup {PyDict(f) : f \in PartialMaps(NestedValues(depth - 1))}

NameA == <<"a">>
NameUpperA == <<"A">>

AllEnvs == {[k \in {} |-> <<>>], [k \in {NameUpperA} |-> <<"v">>]}

AllTables ==
    {[k \in {} |-> PyNone],
     [k \in {NameA} |-> PyStr(<<"w">>)],
     [k \in {NameA} |-> PyInt(0)],
     [k \in {NameA} |-> PyStr(<<"$", "{", "A", "}">>)]}

InitAll ==
    /\ IdleInst /\ IdleSlack
    /\ environ \in AllEnvs
    /\ config_variables_dict \in AllTables
    /\ template_str = PyNone /\ sub_result = PyNone /\ sub_pc = "idle"
    /\ data \in NestedValues(MaxDepth)
    /\ data_before = data
    /\ all_result = PyNone
    /\ all_pc = "call"

\* One call of substitute_all_config_variables.
SubstituteAll ==
    /\ all_pc = "call"
    /\ all_result' = substitute_all_config_variables(data, config_variables_dict, environ)
    /\ all_pc' = "done"
    /\ UNCHANGED <<data, data_before>>
    /\ UNCHANGED <<subVars, instVars, slackVars>>

NextAll == SubstituteAll

SpecAll == InitAll /\ [][NextAll]_vars

\* out has the keys of in at every level, and each leaf of out is
\* substitute_config_variable of the leaf of in at the same place; a
\* sequence-valued leaf is the same in both.
RECURSIVE LeafwiseSubstituted(_, _)
LeafwiseSubstituted(in, out) ==
    IF in.t = "dict"
    THEN /\ out.t = "dict"
         /\ DOMAIN out.d = DOMAIN in.d
         /\ \A k \in DOMAIN in.d : LeafwiseSubstituted(in.d[k], out.d[k])
    ELSE /\ out = substitute_config_variable(in, config_variables_dict, environ)
         /\ in.t = "list" => out = in

-----------------------------------------------------------------------------
(* instantiate_class_from_config and load_class *)

\* Configuration records are functions from their keys to values; the
\* values are strings, None being the value below.
None == "<None>"

\* dict.pop(key, ...): the record without key.
Pop(rec, key) == [k \in DOMAIN rec \ {key} |-> rec[k]]

\* a.update(b): b's entries over a's.
Update(a, b) ==
    [k \in DOMAIN a \cup DOMAIN b |-> IF k \in DOMAIN b THEN b[k] ELSE a[k]]

\* The importable modules and the classes each one holds.
Modules == {"m"}
ClassesOf(module) == IF module = "m" THEN {"C", "K"} ELSE {}

\* class_(**kwargs): C is declared __init__(self, x=None, y=None), K is
\* declared __init__(self, **kwargs).
ConstructorAccepts(class, kwargs) ==
    IF class = "C" THEN DOMAIN kwargs \subseteq {"x", "y"} ELSE TRUE

\* load_class(class_name, module_name): "ok", or the exception raised.
load_class(class_name, module_name) ==
    IF module_name = None THEN "AttributeError"   \* import_module(None)
    ELSE IF module_name \notin Modules THEN "ImportError"
    ELSE IF class_name \notin ClassesOf(module_name) THEN "AttributeError"
    ELSE "ok"

Raised(exception, defaults) ==
    [outcome |-> exception, defaults |-> defaults, called |-> FALSE,
     kwargs |-> EmptyRecord]

\* Lines 196-210: load the class, merge and construct.  cfg and defaults
\* are the copy of config and config_defaults after the pops.
LoadMergeConstruct(module_name, class_name, cfg, runtime, defaults) ==
    IF load_class(class_name, module_name) # "ok"
    THEN Raised(load_class(class_name, module_name), defaults)
    ELSE LET config_with_defaults == Update(Update(defaults, cfg), runtime)
         IN  [outcome |-> IF ConstructorAccepts(class_name, config_with_defaults)
                          THEN "returned" ELSE "TypeError",
              defaults |-> defaults, called |-> TRUE,
              kwargs |-> config_with_defaults]

\* Lines 183-194: resolve class_name.
ResolveClass(module_name, cfg, runtime, defaults) ==
    LET popped == IF "class_name" \in DOMAIN cfg THEN cfg["class_name"] ELSE None
        cfg2 == Pop(cfg, "class_name")
    IN  IF popped = None
        THEN IF "class_name" \notin DOMAIN defaults
             THEN Raised("KeyError", defaults)
             ELSE LoadMergeConstruct(module_name, defaults["class_name"], cfg2,
                                     runtime, Pop(defaults, "class_name"))
        ELSE LoadMergeConstruct(module_name, popped, cfg2, runtime,
                                Pop(defaults, "class_name"))

\* instantiate_class_from_config(config, runtime_config, config_defaults):
\* how the call ends, config_defaults as the call leaves it, and the
\* keyword arguments of the constructor call.  cfg is the deep copy of
\* config; defaults is the caller's own record (or the fresh {}).
instantiate_class_from_config(cfg, runtime, defaults) ==
    LET popped == IF "module_name" \in DOMAIN cfg THEN cfg["module_name"] ELSE None
        cfg1 == Pop(cfg, "module_name")
    IN  IF popped = None
        THEN IF "module_name" \notin DOMAIN defaults
             THEN Raised("KeyError", defaults)
             ELSE ResolveClass(defaults["module_name"], cfg1, runtime,
                               Pop(defaults, "module_name"))
        ELSE ResolveClass(popped, cfg1, runtime, Pop(defaults, "module_name"))

\* The records with keys among keys and, for key k, a value of pool[k].
RecordsOver(keys, pool) ==
    UNION {{r \in [ks -> UNION {pool[k] : k \in keys}] : \A k \in ks : r[k] \in pool[k]}
           : ks \in SUBSET keys}

ConfigPool ==
    [k \in {"module_name", "class_name", "x"} |->
        CASE k = "module_name" -> {"m", None}
          [] k = "class_name"  -> {"K", None}
          [] k = "x"           -> {"config_x"}]

DefaultsPool ==
    [k \in {"module_name", "class_name", "x", "y"} |->
        CASE k = "module_name" -> {"m", "no_such_module"}
          [] k = "class_name"  -> {"C", "NoSuchClass"}
          [] k = "x"           -> {"default_x"}
          [] k = "y"           -> {"default_y"}]

RuntimePool ==
    [k \in {"module_name", "class_name", "x"} |->
        CASE k = "module_name" -> {"runtime_m"}
          [] k = "class_name"  -> {"runtime_c"}
          [] k = "x"           -> {"runtime_x"}]

InitInst ==
    /\ IdleSub /\ IdleAll /\ IdleSlack
    /\ config \in RecordsOver(DOMAIN ConfigPool, ConfigPool)
    /\ defaults_given \in BOOLEAN
    /\ config_defaults \in IF defaults_given
                           THEN RecordsOver(DOMAIN DefaultsPool, DefaultsPool)
                           ELSE {EmptyRecord}
    /\ runtime_config \in RecordsOver(DOMAIN RuntimePool, RuntimePool)
    /\ config_before = config
    /\ defaults_before = config_defaults
    /\ runtime_before = runtime_config
    /\ outcomes = <<>>
    /\ ctor_called = FALSE
    /\ ctor_kwargs = EmptyRecord

\* One call instantiate_class_from_config(config, runtime_config,
\* config_defaults) by a caller that keeps its three records.
Instantiate ==
    /\ Len(outcomes) < MaxCalls
    /\ LET r == instantiate_class_from_config(config, runtime_config, config_defaults)
       IN  /\ outcomes' = Append(outcomes, r.outcome)
           /\ config_defaults' = IF defaults_given THEN r.defaults ELSE config_defaults
           /\ ctor_called' = r.called
           /\ ctor_kwargs' = r.kwargs
    /\ config_before' = config
    /\ defaults_before' = config_defaults
    /\ runtime_before' = runtime_config
    /\ UNCHANGED <<config, runtime_config, defaults_given>>
    /\ UNCHANGED <<subVars, allVars, slackVars>>

NextInst == Instantiate

SpecInst == InitInst /\ [][NextInst]_vars

-----------------------------------------------------------------------------
(* build_slack_notification_request and the callback of get_slack_callback *)

\* validation_json is [given, keys, success, meta]: given is FALSE for
\* None; keys are the top-level keys of the record, success the value of
\* its "success" entry, meta the keys of its "meta" entry.
TopKeys == {"success", "statistics", "meta"}
MetaKeys == {"data_asset_name", "run_id", "batch_kwargs", "result_reference",
             "dataset_reference"}

\* `if validation_json:` - None and the empty record are falsy.
JsonTruthy(vj) == vj.given /\ vj.keys # {}

Block(kind, text, detail) == [kind |-> kind, text |-> text, detail |-> detail]

\* Lines 21-29: the title block before any validation_json is read.
title_block == Block("summary", "No validation occurred", "")

\* Lines 79-88: the footer, with the run id.
footer_section(run_id) == Block("footer", "Great Expectations run id", run_id)

\* DetailBlocks with the report and the data asset blocks appended in the
\* other order.
DetailBlocks_report_last(meta) ==
    (IF "batch_kwargs" \in meta
     THEN <<Block("section", "Batch kwargs", "")>> ELSE <<>>)
    \o (IF "dataset_reference" \in meta
        THEN <<Block("section", "Validation data asset", "")>> ELSE <<>>)
    \o (IF "result_reference" \in meta
        THEN <<Block("section", "Validation Report", "")>> ELSE <<>>)

\* Lines 49-77: the blocks appended for the references meta holds.
DetailBlocks(meta) ==
    (IF "batch_kwargs" \in meta
     THEN <<Block("section", "Batch kwargs", "")>> ELSE <<>>)
    \o (IF "result_reference" \in meta
        THEN <<Block("section", "Validation Report", "")>> ELSE <<>>)
    \o (IF "dataset_reference" \in meta
        THEN <<Block("section", "Validation data asset", "")>> ELSE <<>>)

\* build_slack_notification_request(validation_json): the exception raised
\* ("none" when it returns) and the blocks of the payload returned.
build_slack_notification_request(vj) ==
    IF ~JsonTruthy(vj)
    THEN [raised |-> "none", blocks |-> <<title_block, footer_section("None")>>]
    ELSE IF "statistics" \notin vj.keys      \* line 38
    THEN [raised |-> "KeyError", blocks |-> <<>>]
    ELSE IF "meta" \notin vj.keys            \* line 40
    THEN [raised |-> "KeyError", blocks |-> <<>>]
    ELSE IF "success" \notin vj.keys         \* line 44
    THEN [raised |-> "KeyError", blocks |-> <<>>]
    ELSE LET data_asset_name == IF "data_asset_name" \in vj.meta
                                THEN "asset" ELSE "no_name_provided"
             run_id == IF "run_id" \in vj.meta THEN "run" ELSE "None"
             status == IF vj.success THEN "Success" ELSE "Failed"
         IN  [raised |-> "none",
              blocks |-> <<Block("summary", status, data_asset_name)>>
                         \o DetailBlocks(vj.meta)
                         \o <<footer_section(run_id)>>]

\* What session.post can do: answer 200, answer another status, raise
\* requests.ConnectionError, raise another exception.
PostBehaviours == {"200", "500", "ConnectionError", "Exception"}

\* send_slack_notification(validation_json) with session.post behaving as
\* post: how the call ends, the POSTs made and the records logged.
send_slack_notification(vj, post) ==
    LET built == build_slack_notification_request(vj)
    IN  IF built.raised # "none"              \* line 96, outside the try
        THEN [outcome |-> built.raised, posts |-> 0, log |-> <<>>,
              blocks |-> built.blocks]
        ELSE [outcome |-> "returned", posts |-> 1,
              log |-> CASE post = "ConnectionError" -> <<"warning">>
                        [] post = "Exception"       -> <<"error">>
                        [] post = "500"             -> <<"warning">>
                        [] post = "200"             -> <<>>,
              blocks |-> built.blocks]

\* None, the empty record, and the records that hold success and
\* statistics, with or without meta (line 32 tests for it).
ValidationJsons ==
    {NoValidationJson}
        \cup {[given |-> TRUE, keys |-> ks, success |-> s, meta |-> m] :
                 ks \in {{}, TopKeys \ {"meta"}, TopKeys},
                 s \in BOOLEAN, m \in SUBSET MetaKeys}

InitSlack ==
    /\ IdleSub /\ IdleAll /\ IdleInst
    /\ validation_json \in
          {vj \in ValidationJsons :
              /\ "success" \notin vj.keys => ~vj.success
              /\ "meta" \notin vj.keys => vj.meta = {}}
    /\ query = <<>>
    /\ slack_pc = "call"
    /\ slack_outcome = "none"
    /\ posts = 0
    /\ log = <<>>

\* A direct call of build_slack_notification_request(validation_json).
BuildRequest ==
    /\ slack_pc = "call"
    /\ LET r == build_slack_notification_request(validation_json)
       IN  /\ query' = r.blocks
           /\ slack_outcome' = IF r.raised = "none" THEN "returned" ELSE r.raised
    /\ slack_pc' = "built"
    /\ UNCHANGED <<validation_json, posts, log>>
    /\ UNCHANGED <<subVars, allVars, instVars>>

\* One invocation of the callback returned by get_slack_callback(webhook).
SendSlackNotification ==
    /\ slack_pc = "call"
    /\ \E post \in PostBehaviours :
          LET r == send_slack_notification(validation_json, post)
          IN  /\ query' = r.blocks
              /\ slack_outcome' = r.outcome
              /\ posts' = posts + r.posts
              /\ log' = log \o r.log
    /\ slack_pc' = "sent"
    /\ UNCHANGED validation_json
    /\ UNCHANGED <<subVars, allVars, instVars>>

NextSlack == BuildRequest \/ SendSlackNotification

SpecSlack == InitSlack /\ [][NextSlack]_vars

-----------------------------------------------------------------------------
(* Claims about the Slack notification *)

\* C8: every invocation of the callback makes at most one POST and returns
\* normally, whatever validation_json the caller passes and whatever the
\* POST does.
C8_CallbackNeverRaises ==
    slack_pc = "sent" => slack_outcome = "returned" /\ posts <= 1

\* The optional references of meta that are present, in the order
\* batch_kwargs, result_reference, dataset_reference.
PresentReferences(meta) ==
    SelectSeq(<<"batch_kwargs", "result_reference", "dataset_reference">>,
              LAMBDA k : k \in meta)

ReferenceText(k) ==
    CASE k = "batch_kwargs"      -> "Batch kwargs"
      [] k = "result_reference"  -> "Validation Report"
      [] k = "dataset_reference" -> "Validation data asset"

\* validation_json is None or a record with success, statistics and meta.
WellFormed(vj) == ~vj.given \/ vj.keys = TopKeys

\* C10: for None or a record with success, statistics and meta the payload
\* is one summary block, then one detail block per present reference in
\* the order batch_kwargs, result_reference, dataset_reference, then one
\* footer block; the summary reports Success only when success is true.
C10_BlockLayout ==
    (slack_pc = "built" /\ WellFormed(validation_json))
    => LET refs == IF validation_json.given
                   THEN PresentReferences(validation_json.meta) ELSE <<>>
           n == Len(query)
       IN  /\ slack_outcome = "returned"
           /\ n = 2 + Len(refs)
           /\ query[1].kind = "summary"
           /\ query[n].kind = "footer"
           /\ \A i \in 1..Len(refs) :
                 /\ query[i + 1].kind = "section"
                 /\ query[i + 1].text = ReferenceText(refs[i])
           /\ \A i \in 1..n : query[i].kind = "summary" => i = 1
           /\ \A i \in 1..n : query[i].kind = "footer" => i = n
           /\ query[1].text = "Success"
                 <=> (validation_json.given /\ validation_json.success)

\* Witness of C10: a successful validation with batch_kwargs and
\* dataset_reference but no result_reference gave four blocks.
C10_Witness ==
    /\ slack_pc = "built"
    /\ validation_json.given
    /\ validation_json.keys = TopKeys
    /\ validation_json.success
    /\ validation_json.meta = {"run_id", "batch_kwargs", "dataset_reference"}
    /\ Len(query) = 4
    /\ query[1].text = "Success"
    /\ query[2].text = "Batch kwargs"
    /\ query[3].text = "Validation data asset"
    /\ query[4].kind = "footer"

-----------------------------------------------------------------------------
(* Claims about instantiate_class_from_config *)

ReservedKeys == {"module_name", "class_name"}

Called == Len(outcomes) >= 1
Outcome == outcomes[Len(outcomes)]

\* C2: a call in which module_name or class_name is absent from both
\* config and config_defaults fails with KeyError and leaves the caller's
\* config and config_defaults as they were before the call.
C2_MissingKeyFailsWithoutMutation ==
    (/\ Called
     /\ \E key \in ReservedKeys :
            key \notin DOMAIN config_before /\ key \notin DOMAIN defaults_before)
    => /\ Outcome = "KeyError"
       /\ config = config_before
       /\ config_defaults = defaults_before

\* C3: a successful call leaves the caller's config, config_defaults and
\* runtime_config as they were, and a second call with the same arguments
\* ends as the first did.
C3_InputsNeverMutated ==
    /\ (Called /\ Outcome = "returned") =>
           /\ config = config_before
           /\ config_defaults = defaults_before
           /\ runtime_config = runtime_before
    /\ \A i, j \in 1..Len(outcomes) : outcomes[i] = outcomes[j]

\* defaults overlaid by config overlaid by runtime_config, without the two
\* reserved keys.
MergedWithoutReserved(defaults, cfg, runtime) ==
    [k \in (DOMAIN defaults \cup DOMAIN cfg \cup DOMAIN runtime) \ ReservedKeys |->
        IF k \in DOMAIN runtime THEN runtime[k]
        ELSE IF k \in DOMAIN cfg THEN cfg[k]
        ELSE defaults[k]]

\* C4: when module_name and class_name resolve to a class, the constructor
\* is called with defaults overlaid by config overlaid by runtime_config,
\* the two reserved keys removed.
C4_MergedKwargs ==
    (Called /\ ctor_called)
    => ctor_kwargs = MergedWithoutReserved(defaults_before, config_before, runtime_before)

\* C9: in a successful call the constructor's keyword arguments contain
\* neither module_name nor class_name, whichever record carried them.
C9_ReservedKeysNotForwarded ==
    (Called /\ Outcome = "returned")
    => DOMAIN ctor_kwargs \cap ReservedKeys = {}

====
